---- MODULE Spec2Model ----
(***************************************************************************)
(* Job control of the gosh shell: pipeline start, process groups, the      *)
(* foreground process group of the terminal, the SIGCHLD driven reaping    *)
(* pass of Wait, and the bg / fg / source builtins, modelled together with *)
(* the part of the kernel they talk to (child processes, wait4, the        *)
(* TIOCSPGRP ioctl and the delivery of SIGCHLD to an unbuffered channel).  *)
(***************************************************************************)
EXTENDS Integers, Sequences, FiniteSets, TLC

(* ----------------------------- bounds ---------------------------------- *)
\* number of child processes the shell starts in one run
MaxPid == 2
\* number of started stages of one pipeline
MaxStages == 2

(* --------------------------- state ------------------------------------- *)
VARIABLES
  processGroups,  \* var processGroups []uint32: the job table (leader pids)
  ForegroundPid,  \* var ForegroundPid uint32
  termMode,       \* mode of the terminal: "cbreak" (SetCbreak) or "orig" (Restore)
  envStatus,      \* value of the environment variable "?" (<<>> when unset)
  ttyPgrp,        \* kernel: foreground process group of the controlling terminal
  stdinIsTty,     \* kernel: file descriptor 0 is the controlling terminal
  procs,          \* kernel: the child processes, by pid
  nextPid,        \* kernel: next pid handed out by fork
  sigchld,        \* kernel/runtime: a SIGCHLD is on its way to the channel
  pc,             \* position of the interpreter's single thread
  cmd,            \* main: the line handed to HandleCmd
  err,            \* main: the value HandleCmd returned
  srcErrs,        \* the values SourceFile returned (its callers drop them)
  passIdx,        \* Wait: index of the for loop over processGroups
  waitErr,        \* Wait: "err" of the last call of wait4 is not nil
  newPg,          \* Wait: newPg
  line,           \* HandleCmd: the Command c, a string of characters
  parsed,         \* HandleCmd: parsed, the tokens Tokenize returned
  background,     \* HandleCmd: backgroundProcess
  parsedtokens,   \* HandleCmd: parsedtokens, the argument of ParseCommands
  commands,       \* HandleCmd: commands, what ParseCommands returned
  cmds,           \* HandleCmd: cmds, the exec.Cmd values with their streams
  unopenable,     \* file system: the paths os.Open and os.Create fail on
  lpc,            \* position inside HandleCmd while it builds a pipeline
  strs,           \* LongestPrefix: strs, the list of strings it is called with
  prefix,         \* LongestPrefix: the string it returned
  ppc             \* position of the call of LongestPrefix

\* the job control state and the state of the handling of one line
jobVars == <<processGroups, ForegroundPid, termMode, envStatus, ttyPgrp,
             stdinIsTty, procs, nextPid, sigchld, pc, cmd, err, srcErrs,
             passIdx, waitErr, newPg>>
lineVars == <<line, parsed, background, parsedtokens, commands, cmds, unopenable, lpc>>
\* the state of a call of LongestPrefix
prefixVars == <<strs, prefix, ppc>>

vars == <<processGroups, ForegroundPid, termMode, envStatus, ttyPgrp,
          stdinIsTty, procs, nextPid, sigchld, pc, cmd, err, srcErrs,
          passIdx, waitErr, newPg, line, parsed, background, parsedtokens, commands, cmds,
          unopenable, lpc, strs, prefix, ppc>>

Pids == 1..MaxPid
\* the pid of the interpreter (syscall.Getpid()), different from every child
ShellPid == MaxPid + 1
\* exit codes a child hands to exit()
ExitCodes == {0, 127}
NoCmd == [kind |-> "none"]

(* ------------------------ pure helpers --------------------------------- *)
Digit(d) ==
  CASE d = 0 -> "0" [] d = 1 -> "1" [] d = 2 -> "2" [] d = 3 -> "3"
    [] d = 4 -> "4" [] d = 5 -> "5" [] d = 6 -> "6" [] d = 7 -> "7"
    [] d = 8 -> "8" [] d = 9 -> "9"

DigitVal(c) ==
  CASE c = "0" -> 0 [] c = "1" -> 1 [] c = "2" -> 2 [] c = "3" -> 3
    [] c = "4" -> 4 [] c = "5" -> 5 [] c = "6" -> 6 [] c = "7" -> 7
    [] c = "8" -> 8 [] c = "9" -> 9 [] OTHER -> -1

\* strconv.Itoa for a non-negative int: its decimal digits
RECURSIVE Itoa(_)
Itoa(n) == IF n < 10 THEN <<Digit(n)>> ELSE Itoa(n \div 10) \o <<Digit(n % 10)>>

RECURSIVE ParseDigits(_, _)
ParseDigits(s, acc) ==
  IF s = <<>> THEN [ok |-> TRUE, val |-> acc]
  ELSE IF DigitVal(Head(s)) < 0 THEN [ok |-> FALSE, val |-> 0]
  ELSE ParseDigits(Tail(s), acc * 10 + DigitVal(Head(s)))

\* Atoi that reads a string it cannot parse as 0
AtoiLenient(s) ==
  LET signed == s # <<>> /\ Head(s) \in {"+", "-"}
      body == IF signed THEN Tail(s) ELSE s
      r == ParseDigits(body, 0)
  IN IF body = <<>> \/ ~r.ok THEN [ok |-> TRUE, val |-> 0]
     ELSE [ok |-> TRUE, val |-> IF signed /\ Head(s) = "-" THEN 0 - r.val ELSE r.val]

\* strconv.Atoi: optional sign, then at least one digit, nothing else
Atoi(s) ==
  LET signed == s # <<>> /\ Head(s) \in {"+", "-"}
      body == IF signed THEN Tail(s) ELSE s
      r == ParseDigits(body, 0)
  IN IF body = <<>> \/ ~r.ok THEN [ok |-> FALSE, val |-> 0]
     ELSE [ok |-> TRUE, val |-> IF signed /\ Head(s) = "-" THEN 0 - r.val ELSE r.val]

(* ------------------------ kernel model --------------------------------- *)
FreeProc == [st |-> "free", pgid |-> 0, rpt |-> "none", code |-> 0]

\* fork + setpgid(0, attrPgid) + exec of one stage (SysProcAttr.Setpgid):
\* attrPgid = 0 makes the child the leader of a new group
StartProc(P, pid, attrPgid) ==
  [P EXCEPT ![pid] = [st |-> "running",
                      pgid |-> IF attrPgid = 0 THEN pid ELSE attrPgid,
                      rpt |-> "none", code |-> 0]]

\* syscall.Getpgid
Getpgid(P, pid) == P[pid].pgid

\* a process group the TIOCSPGRP ioctl accepts: the interpreter's own pid or
\* the group of a child that has not been reaped
GroupInSession(S, g) ==
  \/ g = ShellPid
  \/ \E p \in Pids : S.procs[p].st \in {"running", "stopped", "zombie"} /\ S.procs[p].pgid = g

\* does ioctl(0, TIOCSPGRP, &g) succeed
IoctlOk(S, g) == stdinIsTty /\ GroupInSession(S, g)

\* kill(pid, SIGCONT): a stopped process runs again and its parent is told
SigCont(S, pid) ==
  IF S.procs[pid].st = "stopped"
  THEN [S EXCEPT !.procs[pid].st = "running", !.procs[pid].rpt = "continued",
                 !.sigchld = TRUE]
  ELSE S

\* wait4 fails: pid1 is -1, err is set and status stays the zero WaitStatus,
\* for which Exited() holds and ExitStatus() is 0
Wait4Error(P) ==
  [pid1 |-> 0 - 1, werr |-> TRUE, status |-> "exited", code |-> 0, procs |-> P]

\* wait4(pid, &status, WNOHANG|WUNTRACED|WCONTINUED): pid1, the kind of the
\* status, the exit code, and the process table afterwards
Wait4(P, pid) ==
  LET p == P[pid] IN
  IF p.st = "zombie"
    THEN [pid1 |-> pid, werr |-> FALSE, status |-> p.rpt, code |-> p.code,
          procs |-> [P EXCEPT ![pid].st = "reaped", ![pid].rpt = "none"]]
  ELSE IF p.st \in {"free", "reaped"}
    \* ECHILD
    THEN Wait4Error(P)
  ELSE IF p.rpt \in {"stopped", "continued"}
    THEN [pid1 |-> pid, werr |-> FALSE, status |-> p.rpt, code |-> 0,
          procs |-> [P EXCEPT ![pid].rpt = "none"]]
  ELSE [pid1 |-> 0, werr |-> FALSE, status |-> "none", code |-> 0, procs |-> P]

(* ---------------------- the shell state as a value --------------------- *)
Sh ==
  [processGroups |-> processGroups, ForegroundPid |-> ForegroundPid,
   termMode |-> termMode, envStatus |-> envStatus, ttyPgrp |-> ttyPgrp,
   procs |-> procs, nextPid |-> nextPid, sigchld |-> sigchld]

Commit(S) ==
  /\ processGroups' = S.processGroups
  /\ ForegroundPid' = S.ForegroundPid
  /\ termMode' = S.termMode
  /\ envStatus' = S.envStatus
  /\ ttyPgrp' = S.ttyPgrp
  /\ procs' = S.procs
  /\ nextPid' = S.nextPid
  /\ sigchld' = S.sigchld

\* what a call hands back: the state it leaves, its error value ("nil",
\* "err", the sentinel "fg", or "panic"), and what SourceFile returned
Ret(S, e, se) == [sh |-> S, err |-> e, srcErrs |-> se]

(* ------------------- HandleCmd: external pipelines --------------------- *)
\* a job appended for every started stage
AppendJobEachStage(pgs, pid, attrPgid) == Append(pgs, pid)

\* "if sysProcAttr.Pgid == 0 { ... processGroups = append(processGroups, pid) }"
AppendJob(pgs, pid, attrPgid) == IF attrPgid = 0 THEN Append(pgs, pid) ELSE pgs

\* "sysProcAttr.Pgid, _ = syscall.Getpgid(c.Process.Pid)": the group every
\* later stage is started with
NextAttrPgid(P, pid, attrPgid) == IF attrPgid = 0 THEN Getpgid(P, pid) ELSE attrPgid

\* "for _, c := range cmds { c.Start() ... }": stage k of n; stage failAt
\* fails to start (0: none does); attrPgid is sysProcAttr.Pgid
RECURSIVE StartStages(_, _, _, _, _)
StartStages(S, k, n, failAt, attrPgid) ==
  IF k > n THEN [sh |-> S, pgrp |-> attrPgid, err |-> "nil"]
  ELSE IF k = failAt THEN [sh |-> S, pgrp |-> attrPgid, err |-> "err"]
  ELSE LET pid == S.nextPid
           P1 == StartProc(S.procs, pid, attrPgid)
           S1 == [S EXCEPT !.procs = P1, !.nextPid = pid + 1,
                           !.processGroups = AppendJob(@, pid, attrPgid)]
       IN StartStages(S1, k + 1, n, failAt, NextAttrPgid(P1, pid, attrPgid))

\* "ForegroundPid = pgrp; terminal.Restore(); ioctl(TIOCSPGRP, &pgrp)"
SetForeground(S, pgrp) ==
  LET S1 == [S EXCEPT !.ForegroundPid = pgrp, !.termMode = "orig"]
  IN IF IoctlOk(S1, pgrp)
     THEN Ret([S1 EXCEPT !.ttyPgrp = pgrp], "fg", <<>>)
     ELSE Ret(S1, "err", <<>>)

\* a line whose first word is not a builtin: c.n stages with non-empty Args
HandleExt(S, c) ==
  LET r == StartStages(S, 1, c.n, c.failAt, 0)
  IN IF r.err # "nil" THEN Ret(r.sh, "err", <<>>)
     ELSE IF c.bg THEN Ret(r.sh, "nil", <<>>)
     ELSE SetForeground(r.sh, r.pgrp)

(* ----------------------- HandleCmd: bg and fg -------------------------- *)
\* "if i >= len(processGroups) || i < 0" is false
ValidJobIndex(i, pgs) == ~(i >= Len(pgs) \/ i < 0)

\* the checks bg and fg share: "ok" with the job's pid, or the error return
JobArg(S, args) ==
  IF Len(args) < 1 THEN [ok |-> FALSE, pid |-> 0]
  ELSE LET a == Atoi(args[1])
       IN IF ~a.ok THEN [ok |-> FALSE, pid |-> 0]
          ELSE IF ~ValidJobIndex(a.val, S.processGroups) THEN [ok |-> FALSE, pid |-> 0]
          ELSE [ok |-> TRUE, pid |-> S.processGroups[a.val + 1]]

\* bg that also hands the terminal to the job, as fg does
HandleBgTakesTerminal(S, c) ==
  LET j == JobArg(S, c.args)
  IN IF ~j.ok THEN Ret(S, "err", <<>>)
     ELSE LET S1 == [SigCont(S, j.pid) EXCEPT !.termMode = "orig"]
          IN IF ~IoctlOk(S1, j.pid) THEN Ret(S1, "nil", <<>>)
             ELSE Ret([S1 EXCEPT !.ttyPgrp = j.pid], "nil", <<>>)

\* case "bg": SIGCONT to processGroups[i], "return nil"
HandleBg(S, c) ==
  LET j == JobArg(S, c.args)
  IN IF ~j.ok THEN Ret(S, "err", <<>>)
     ELSE Ret(SigCont(S, j.pid), "nil", <<>>)

\* fg that sets ForegroundPid before the ioctl, as the foreground start does
HandleFgForegroundFirst(S, c) ==
  LET j == JobArg(S, c.args)
  IN IF ~j.ok THEN Ret(S, "err", <<>>)
     ELSE LET S1 == [SigCont(S, j.pid) EXCEPT !.termMode = "orig", !.ForegroundPid = j.pid]
          IN IF ~IoctlOk(S1, j.pid) THEN Ret(S1, "panic", <<>>)
             ELSE Ret([S1 EXCEPT !.ttyPgrp = j.pid], "fg", <<>>)

\* case "fg": SIGCONT, terminal.Restore(), ioctl(TIOCSPGRP, &pid); panic when
\* the ioctl fails, else "ForegroundPid = pid; return ForegroundProcess"
HandleFg(S, c) ==
  LET j == JobArg(S, c.args)
  IN IF ~j.ok THEN Ret(S, "err", <<>>)
     ELSE LET S1 == [SigCont(S, j.pid) EXCEPT !.termMode = "orig"]
          IN IF ~IoctlOk(S1, j.pid) THEN Ret(S1, "panic", <<>>)
             ELSE Ret([S1 EXCEPT !.ttyPgrp = j.pid, !.ForegroundPid = j.pid], "fg", <<>>)

(* ------------------- HandleCmd, source and SourceFile ------------------ *)
RECURSIVE HandleCmd(_, _)
RECURSIVE SourceLines(_, _)
RECURSIVE SourceFiles(_, _, _)

\* the loop of SourceFile over the lines of an opened file
SourceLines(S, lines) ==
  IF lines = <<>> THEN Ret(S, "nil", <<>>)
  ELSE LET r == HandleCmd(S, Head(lines))
       IN IF r.err # "nil" THEN Ret(r.sh, r.err, <<>>)
          ELSE SourceLines(r.sh, Tail(lines))

\* SourceFile(filename): a file is [exists, lines]
SourceFile(S, f) ==
  IF ~f.exists THEN Ret(S, "err", <<>>)
  ELSE SourceLines(S, f.lines)

\* "for _, f := range args { SourceFile(f) }; return nil"
SourceFiles(S, files, seen) ==
  IF files = <<>> THEN Ret(S, "nil", seen)
  ELSE LET r == SourceFile(S, Head(files))
       IN IF r.err = "panic" THEN Ret(r.sh, "panic", Append(seen, r.err))
          ELSE SourceFiles(r.sh, Tail(files), Append(seen, r.err))

HandleSource(S, c) ==
  IF Len(c.files) < 1 THEN Ret(S, "err", <<>>)
  ELSE SourceFiles(S, c.files, <<>>)

HandleCmd(S, c) ==
  CASE c.kind = "bg" -> HandleBg(S, c)
    [] c.kind = "fg" -> HandleFg(S, c)
    [] c.kind = "source" -> HandleSource(S, c)
    [] OTHER -> HandleExt(S, c)

(* ------------------------- Wait: one job ------------------------------- *)
\* what one iteration of the loop over processGroups leaves: the shell
\* state, newPg, and whether it panicked
WRet(S, npg, pn) == [sh |-> S, newPg |-> npg, panic |-> pn]

\* the terminal taken back with ForegroundPid left as it is
ResumeShellKeepsForeground(S, npg) ==
  LET S1 == [S EXCEPT !.termMode = "cbreak"]
  IN IF ~IoctlOk(S1, ShellPid) THEN WRet(S1, npg, TRUE)
     ELSE WRet([S1 EXCEPT !.ttyPgrp = ShellPid], npg, FALSE)

\* "Resume Shell Foreground": SetCbreak, ioctl to the own pid, ForegroundPid = 0
ResumeShell(S, npg) ==
  LET S1 == [S EXCEPT !.termMode = "cbreak"]
  IN IF ~IoctlOk(S1, ShellPid) THEN WRet(S1, npg, TRUE)
     ELSE WRet([S1 EXCEPT !.ttyPgrp = ShellPid, !.ForegroundPid = 0], npg, FALSE)

\* "pg == ForegroundPid && ForegroundPid != 0"
IsForeground(S, pg) == pg = S.ForegroundPid /\ S.ForegroundPid # 0

\* a job without a status dropped from newPg
HandleNoStatusDrop(S, npg, pg) == WRet(S, npg, FALSE)

\* "if pid1 == 0 && err == nil { newPg = append(newPg, pg); continue }"
HandleNoStatus(S, npg, pg) == WRet(S, Append(npg, pg), FALSE)

\* a continued job promoted whatever ForegroundPid is
HandleContinuedAlways(S, npg, pg) ==
  LET npg1 == Append(npg, pg)
      S1 == [S EXCEPT !.termMode = "orig"]
  IN IF ~IoctlOk(S1, pg) THEN WRet(S1, npg1, TRUE)
     ELSE WRet([S1 EXCEPT !.ttyPgrp = pg, !.ForegroundPid = pg], npg1, FALSE)

\* case status.Continued()
HandleContinued(S, npg, pg) ==
  LET npg1 == Append(npg, pg)
  IN IF S.ForegroundPid = 0
     THEN LET S1 == [S EXCEPT !.termMode = "orig"]
          IN IF ~IoctlOk(S1, pg) THEN WRet(S1, npg1, TRUE)
             ELSE WRet([S1 EXCEPT !.ttyPgrp = pg, !.ForegroundPid = pg], npg1, FALSE)
     ELSE WRet(S, npg1, FALSE)

\* a stopped foreground job not appended to newPg
HandleStoppedLoseForeground(S, npg, pg) ==
  IF IsForeground(S, pg) THEN ResumeShell(S, npg) ELSE WRet(S, Append(npg, pg), FALSE)

\* case status.Stopped()
HandleStopped(S, npg, pg) ==
  LET npg1 == Append(npg, pg)
  IN IF IsForeground(S, pg) THEN ResumeShell(S, npg1) ELSE WRet(S, npg1, FALSE)

\* a killed job that sets "?" as an exited one does
HandleSignaledSetenv(S, npg, pg) ==
  LET r == IF IsForeground(S, pg) THEN ResumeShell(S, npg) ELSE WRet(S, npg, FALSE)
  IN IF r.panic THEN r
     ELSE WRet([r.sh EXCEPT !.envStatus = <<"-", "1">>], npg, FALSE)

\* case status.Signaled()
HandleSignaled(S, npg, pg) ==
  IF IsForeground(S, pg) THEN ResumeShell(S, npg) ELSE WRet(S, npg, FALSE)

\* "?" set for background jobs only (Setenv inside the else branch)
HandleExitedSetenvBackground(S, npg, pg, code) ==
  IF IsForeground(S, pg) THEN ResumeShell(S, npg)
  ELSE WRet([S EXCEPT !.envStatus = Itoa(code)], npg, FALSE)

\* case status.Exited(): os.Setenv("?", strconv.Itoa(status.ExitStatus()))
HandleExited(S, npg, pg, code) ==
  LET r == IF IsForeground(S, pg) THEN ResumeShell(S, npg) ELSE WRet(S, npg, FALSE)
  IN IF r.panic THEN r
     ELSE WRet([r.sh EXCEPT !.envStatus = Itoa(code)], npg, FALSE)

\* the body of "for _, pg := range processGroups" after the call of wait4,
\* which returned w
CheckStatus(S, npg, pg, w) ==
  LET S1 == [S EXCEPT !.procs = w.procs]
  IN IF w.pid1 = 0 /\ ~w.werr THEN HandleNoStatus(S1, npg, pg)
     ELSE CASE w.status = "continued" -> HandleContinued(S1, npg, pg)
            [] w.status = "stopped" -> HandleStopped(S1, npg, pg)
            [] w.status = "signaled" -> HandleSignaled(S1, npg, pg)
            [] w.status = "exited" -> HandleExited(S1, npg, pg, w.code)
            [] OTHER -> WRet(S1, Append(npg, pg), FALSE)

\* the body of "for _, pg := range processGroups"
CheckJob(S, npg, pg) == CheckStatus(S, npg, pg, Wait4(S.procs, pg))

(* ------------------------- input lines --------------------------------- *)
\* external pipelines: n stages with non-empty Args, a trailing "&" or not,
\* and the stage whose start fails (0: every stage starts)
ExtCmds ==
  UNION {{[kind |-> "ext", n |-> n, bg |-> b, failAt |-> f] : b \in BOOLEAN, f \in 0..n} :
         n \in 0..MaxStages}

\* argument lists of bg and fg: none, a job index, a negative number, a word
JobArgs ==
  {<<>>, <<(<<"-", "1">>)>>, <<(<<"x">>)>>} \cup {<<Itoa(i)>> : i \in 0..(MaxPid - 1)}

JobCmds == {[kind |-> k, args |-> a] : k \in {"bg", "fg"}, a \in JobArgs}

\* lines of a sourced file
FileLines ==
  {[kind |-> "ext", n |-> 1, bg |-> FALSE, failAt |-> 0],
   [kind |-> "ext", n |-> 1, bg |-> TRUE, failAt |-> 0],
   [kind |-> "fg", args |-> <<Itoa(0)>>]}

Files ==
  {[exists |-> FALSE, lines |-> <<>>]}
    \cup {[exists |-> TRUE, lines |-> <<a>>] : a \in FileLines}
    \cup {[exists |-> TRUE, lines |-> <<a, b>>] : a, b \in FileLines}

SourceCmds == {[kind |-> "source", files |-> fs] : fs \in {<<>>} \cup {<<f>> : f \in Files}}

Lines == ExtCmds \cup JobCmds \cup SourceCmds

\* an upper bound of the processes a line starts
RECURSIVE PidsOfLines(_)
PidsOfLines(ls) ==
  IF ls = <<>> THEN 0
  ELSE (IF Head(ls).kind = "ext" THEN Head(ls).n ELSE 0) + PidsOfLines(Tail(ls))

PidsNeeded(c) ==
  CASE c.kind = "ext" -> c.n
    [] c.kind = "source" -> IF c.files = <<>> THEN 0 ELSE PidsOfLines(c.files[1].lines)
    [] OTHER -> 0

(* --------------------------- main -------------------------------------- *)
\* no line is being taken apart
LineIdle ==
  /\ line = <<>> /\ parsed = <<>> /\ background = FALSE /\ parsedtokens = <<>>
  /\ commands = <<>> /\ cmds = <<>> /\ unopenable = {}

\* no call of LongestPrefix is under way
PrefixIdle == strs = <<>> /\ prefix = <<>> /\ ppc = "idle"

\* the globals, the terminal and the kernel when main starts
InitJobs ==
  /\ processGroups = <<>>
  /\ ForegroundPid = 0
  /\ termMode = "cbreak"
  /\ envStatus = <<>>
  /\ ttyPgrp = ShellPid
  /\ stdinIsTty \in BOOLEAN
  /\ procs = [p \in Pids |-> FreeProc]
  /\ nextPid = 1
  /\ sigchld = FALSE
  /\ pc = "start"
  /\ cmd = NoCmd
  /\ err = "nil"
  /\ srcErrs = <<>>
  /\ passIdx = 0
  /\ waitErr = FALSE
  /\ newPg = <<>>

Init == InitJobs /\ LineIdle /\ lpc = "idle" /\ PrefixIdle

\* main, "SourceFile(u.HomeDir + "/.goshrc")": the value it returns is dropped
Startup ==
  /\ pc = "start"
  /\ \E f \in Files :
       /\ PidsOfLines(f.lines) <= MaxPid
       /\ LET r == SourceFile(Sh, f)
          IN /\ Commit(r.sh)
             /\ srcErrs' = <<r.err>>
             /\ pc' = IF r.err = "panic" THEN "panic" ELSE "read"
  /\ UNCHANGED <<stdinIsTty, cmd, err, passIdx, newPg>>
  /\ UNCHANGED <<waitErr, lineVars, prefixVars>>

\* main: a line has been typed and "err := cmd.HandleCmd()" has returned
ReadLine ==
  /\ pc = "read"
  /\ \E c \in Lines :
       /\ nextPid + PidsNeeded(c) - 1 <= MaxPid
       /\ LET r == HandleCmd(Sh, c)
          IN /\ Commit(r.sh)
             /\ cmd' = c
             /\ err' = r.err
             /\ srcErrs' = r.srcErrs
             /\ pc' = IF r.err = "panic" THEN "panic" ELSE "dispatch"
  /\ UNCHANGED <<stdinIsTty, passIdx, newPg>>
  /\ UNCHANGED <<waitErr, lineVars, prefixVars>>

\* main: "if err == ForegroundProcess { Wait(child) } else if err != nil {...}";
\* without Wait: "PrintPrompt(); cmd = """
Dispatch ==
  /\ pc = "dispatch"
  /\ IF err = "fg"
     THEN pc' = "enterWait" /\ UNCHANGED <<cmd, err, srcErrs>>
     ELSE pc' = "read" /\ cmd' = NoCmd /\ err' = "nil" /\ srcErrs' = <<>>
  /\ UNCHANGED <<processGroups, ForegroundPid, termMode, envStatus, ttyPgrp,
                 stdinIsTty, procs, nextPid, sigchld, passIdx, newPg>>
  /\ UNCHANGED <<waitErr, lineVars, prefixVars>>

\* main: the line is exit or quit: "t.Restore(); os.Exit(0)"
Exit ==
  /\ pc = "read"
  /\ pc' = "exited"
  /\ termMode' = "orig"
  /\ UNCHANGED <<processGroups, ForegroundPid, envStatus, ttyPgrp, stdinIsTty,
                 procs, nextPid, sigchld, cmd, err, srcErrs, passIdx, newPg>>
  /\ UNCHANGED <<waitErr, lineVars, prefixVars>>

\* the interpreter runs; between the return of HandleCmd and the test of err the
\* children are not looked at, a change there is the same as one right after
Alive == pc \notin {"start", "dispatch", "exited", "panic"}

(* --------------------------- Wait -------------------------------------- *)
\* Wait reaches "select { case <-ch:" and blocks on the channel
WaitSelect ==
  /\ pc = "enterWait"
  /\ pc' = "recv"
  /\ UNCHANGED <<processGroups, ForegroundPid, termMode, envStatus, ttyPgrp,
                 stdinIsTty, procs, nextPid, sigchld, cmd, err, srcErrs, passIdx, newPg>>
  /\ UNCHANGED <<waitErr, lineVars, prefixVars>>

\* the runtime hands a SIGCHLD to the channel of signal.Notify: the channel has
\* no buffer, so the signal is dropped unless Wait is blocked receiving; on
\* receipt "newPg := make([]uint32, 0, len(processGroups))"
DeliverSigchld ==
  /\ Alive /\ sigchld
  /\ sigchld' = FALSE
  /\ IF pc = "recv"
     THEN pc' = "pass" /\ passIdx' = 1 /\ newPg' = <<>>
     ELSE UNCHANGED <<pc, passIdx, newPg>>
  /\ UNCHANGED <<processGroups, ForegroundPid, termMode, envStatus, ttyPgrp,
                 stdinIsTty, procs, nextPid, cmd, err, srcErrs>>
  /\ UNCHANGED <<waitErr, lineVars, prefixVars>>

\* one iteration of "for _, pg := range processGroups" in which wait4
\* returned w
WaitCheckWith(w) ==
  /\ pc = "pass"
  /\ passIdx <= Len(processGroups)
  /\ LET r == CheckStatus(Sh, newPg, processGroups[passIdx], w)
     IN /\ ForegroundPid' = r.sh.ForegroundPid
        /\ termMode' = r.sh.termMode
        /\ envStatus' = r.sh.envStatus
        /\ ttyPgrp' = r.sh.ttyPgrp
        /\ procs' = r.sh.procs
        /\ newPg' = r.newPg
        /\ pc' = IF r.panic THEN "panic" ELSE "pass"
        /\ passIdx' = passIdx + 1
        /\ waitErr' = w.werr
  /\ UNCHANGED <<processGroups, stdinIsTty, nextPid, sigchld, cmd, err, srcErrs>>
  /\ UNCHANGED <<lineVars, prefixVars>>

\* one iteration of "for _, pg := range processGroups"; wait4 finds every
\* job, which is a child that has not been waited for
WaitCheck ==
  /\ pc = "pass"
  /\ passIdx <= Len(processGroups)
  /\ WaitCheckWith(Wait4(procs, processGroups[passIdx]))

\* "processGroups = newPg" and "if ForegroundPid == 0 { return }"; back in
\* main: "PrintPrompt(); cmd = """
WaitEndPass ==
  /\ pc = "pass"
  /\ passIdx > Len(processGroups)
  /\ processGroups' = newPg
  /\ IF ForegroundPid = 0
     THEN pc' = "read" /\ cmd' = NoCmd /\ err' = "nil" /\ srcErrs' = <<>>
     ELSE pc' = "enterWait" /\ UNCHANGED <<cmd, err, srcErrs>>
  /\ passIdx' = 0
  /\ newPg' = <<>>
  /\ UNCHANGED <<ForegroundPid, termMode, envStatus, ttyPgrp, stdinIsTty, procs,
                 nextPid, sigchld>>
  /\ UNCHANGED <<waitErr, lineVars, prefixVars>>

(* ----------------------- the child processes --------------------------- *)
\* a running child stops (SIGTSTP, SIGSTOP, SIGTTIN)
ChildStops(p) ==
  /\ Alive /\ procs[p].st = "running"
  /\ procs' = [procs EXCEPT ![p].st = "stopped", ![p].rpt = "stopped"]
  /\ sigchld' = TRUE
  /\ UNCHANGED <<processGroups, ForegroundPid, termMode, envStatus, ttyPgrp,
                 stdinIsTty, nextPid, pc, cmd, err, srcErrs, passIdx, newPg>>
  /\ UNCHANGED <<waitErr, lineVars, prefixVars>>

\* a stopped child gets SIGCONT from somebody else
ChildContinues(p) ==
  /\ Alive /\ procs[p].st = "stopped"
  /\ procs' = [procs EXCEPT ![p].st = "running", ![p].rpt = "continued"]
  /\ sigchld' = TRUE
  /\ UNCHANGED <<processGroups, ForegroundPid, termMode, envStatus, ttyPgrp,
                 stdinIsTty, nextPid, pc, cmd, err, srcErrs, passIdx, newPg>>
  /\ UNCHANGED <<waitErr, lineVars, prefixVars>>

\* a running child calls exit(code)
ChildExits(p, code) ==
  /\ Alive /\ procs[p].st = "running"
  /\ procs' = [procs EXCEPT ![p].st = "zombie", ![p].rpt = "exited", ![p].code = code]
  /\ sigchld' = TRUE
  /\ UNCHANGED <<processGroups, ForegroundPid, termMode, envStatus, ttyPgrp,
                 stdinIsTty, nextPid, pc, cmd, err, srcErrs, passIdx, newPg>>
  /\ UNCHANGED <<waitErr, lineVars, prefixVars>>

\* a child is killed by a signal
ChildKilled(p) ==
  /\ Alive /\ procs[p].st \in {"running", "stopped"}
  /\ procs' = [procs EXCEPT ![p].st = "zombie", ![p].rpt = "signaled"]
  /\ sigchld' = TRUE
  /\ UNCHANGED <<processGroups, ForegroundPid, termMode, envStatus, ttyPgrp,
                 stdinIsTty, nextPid, pc, cmd, err, srcErrs, passIdx, newPg>>
  /\ UNCHANGED <<waitErr, lineVars, prefixVars>>

ChildStep ==
  \E p \in Pids :
    \/ ChildStops(p)
    \/ ChildContinues(p)
    \/ \E code \in ExitCodes : ChildExits(p, code)
    \/ ChildKilled(p)

WaitStep == WaitSelect \/ WaitCheck \/ WaitEndPass

Next ==
  \/ Startup
  \/ ReadLine
  \/ Dispatch
  \/ Exit
  \/ WaitStep
  \/ DeliverSigchld
  \/ ChildStep

Spec == Init /\ [][Next]_vars

\* the interpreter's own thread keeps running and the runtime hands every
\* pending signal on; nothing is assumed of the children or of the user
FairSpec ==
  Spec /\ WF_vars(Dispatch) /\ WF_vars(WaitStep) /\ WF_vars(DeliverSigchld)

TypeOK ==
  /\ pc \in {"start", "read", "dispatch", "enterWait", "recv", "pass", "exited", "panic"}
  /\ ForegroundPid \in 0..MaxPid
  /\ termMode \in {"cbreak", "orig"}
  /\ ttyPgrp \in 1..ShellPid
  /\ nextPid \in 1..(MaxPid + 1)
  /\ \A i \in 1..Len(processGroups) : processGroups[i] \in Pids

(* =================== HandleCmd: from the line to cmds ================== *)
\* number of characters of a line
MaxLen == 5

\* the characters of a line: two letters, the blank, the quote, the backslash
\* and the four structural characters
Chars == {"a", "b", " ", "'", "\\", "|", "<", ">", "&"}

\* c[lo:hi] of Go for a 0-based lo and an excluded hi
Slice(c, lo, hi) == SubSeq(c, lo + 1, hi)

\* the token left as it is
ReplaceNothing(t) == t

\* strings.Replace(token, `\'`, "'", -1)
RECURSIVE ReplaceEscapedQuotes(_)
ReplaceEscapedQuotes(t) ==
  IF Len(t) < 2 THEN t
  ELSE IF t[1] = "\\" /\ t[2] = "'"
    THEN <<"'">> \o ReplaceEscapedQuotes(SubSeq(t, 3, Len(t)))
  ELSE <<t[1]>> \o ReplaceEscapedQuotes(Tail(t))

\* no character is white space
IsSpaceNever(chr) == FALSE

\* unicode.IsSpace for the characters of Chars
IsSpace(chr) == chr = " "

\* what Tokenize hands back: its token list, or the run-time panic of a slice
\* expression out of range
TokRet(p, pn) == [parsed |-> p, panic |-> pn]

\* the last token always taken from the character after tokenStart
TokenizeEndSkipsFirst(c, parsed0, tokenStart, inStringLiteral) ==
  IF tokenStart >= 0
  THEN IF tokenStart + 1 > Len(c) THEN TokRet(parsed0, TRUE)
       ELSE TokRet(Append(parsed0, Slice(c, tokenStart + 1, Len(c))), FALSE)
  ELSE TokRet(parsed0, FALSE)

\* after the loop: "if tokenStart >= 0 { if inStringLiteral { tokenStart += 1 };
\* parsed = append(parsed, string(c[tokenStart:])) }"
TokenizeEnd(c, parsed0, tokenStart, inStringLiteral) ==
  IF tokenStart >= 0
  THEN LET ts == IF inStringLiteral THEN tokenStart + 1 ELSE tokenStart
       IN IF ts > Len(c) THEN TokRet(parsed0, TRUE)
          ELSE TokRet(Append(parsed0, Slice(c, ts, Len(c))), FALSE)
  ELSE TokRet(parsed0, FALSE)

\* "for i, chr := range c { switch chr { ... } }" from index i on
RECURSIVE TokenizeFrom(_, _, _, _, _)
TokenizeFrom(c, i, parsed0, tokenStart, inStringLiteral) ==
  IF i >= Len(c) THEN TokenizeEnd(c, parsed0, tokenStart, inStringLiteral)
  ELSE LET chr == c[i + 1]
       IN CASE chr = "'" ->
                 IF inStringLiteral
                 THEN IF i > 0 /\ c[i] = "\\"
                      THEN TokenizeFrom(c, i + 1, parsed0, tokenStart, inStringLiteral)
                      ELSE TokenizeFrom(c, i + 1,
                             Append(parsed0, ReplaceEscapedQuotes(Slice(c, tokenStart, i))),
                             0 - 1, FALSE)
                 ELSE TokenizeFrom(c, i + 1, parsed0, i + 1, TRUE)
            [] chr = "|" ->
                 IF inStringLiteral
                 THEN TokenizeFrom(c, i + 1, parsed0, tokenStart, inStringLiteral)
                 ELSE TokenizeFrom(c, i + 1,
                        (IF tokenStart >= 0 THEN Append(parsed0, Slice(c, tokenStart, i))
                                            ELSE parsed0) \o <<(<<"|">>)>>,
                        0 - 1, inStringLiteral)
            [] OTHER ->
                 IF inStringLiteral
                 THEN TokenizeFrom(c, i + 1, parsed0, tokenStart, inStringLiteral)
                 ELSE IF IsSpace(chr)
                   THEN IF tokenStart = 0 - 1
                        THEN TokenizeFrom(c, i + 1, parsed0, tokenStart, inStringLiteral)
                        ELSE TokenizeFrom(c, i + 1, Append(parsed0, Slice(c, tokenStart, i)),
                                          0 - 1, inStringLiteral)
                 ELSE IF tokenStart = 0 - 1
                   THEN TokenizeFrom(c, i + 1, parsed0, i, inStringLiteral)
                 ELSE TokenizeFrom(c, i + 1, parsed0, tokenStart, inStringLiteral)

\* func (c Command) Tokenize() []string
Tokenize(c) == TokenizeFrom(c, 0, <<>>, 0 - 1, FALSE)

\* the methods of Token
IsPipe(t) == t = <<"|">>
IsSpecial(t) == t = <<"<">> \/ t = <<">">> \/ t = <<"|">>
IsStdinRedirect(t) == t = <<"<">>
IsStdoutRedirect(t) == t = <<">">>

\* ParsedCommand{}
EmptyCommand == [Args |-> <<>>, Stdin |-> <<>>, Stdout |-> <<>>]

\* "for i, t := range tokens" of ParseCommands from index i on
RECURSIVE ParseFrom(_, _, _, _, _, _, _, _)
ParseFrom(tokens, i, currentCmd, allCommands, lastCommandStart, foundSpecial, nextStdin, nextStdout) ==
  IF i >= Len(tokens) THEN allCommands
  ELSE LET t == tokens[i + 1]
           last == i = Len(tokens) - 1
           c1 == IF nextStdin THEN [currentCmd EXCEPT !.Stdin = t] ELSE currentCmd
           c2 == IF nextStdout THEN [c1 EXCEPT !.Stdout = t] ELSE c1
           slice == IF last THEN Slice(tokens, lastCommandStart, Len(tokens))
                            ELSE Slice(tokens, lastCommandStart, i)
           c3 == IF (IsSpecial(t) \/ last) /\ ~foundSpecial
                 THEN [c2 EXCEPT !.Args = @ \o slice] ELSE c2
           ends == IsPipe(t) \/ last
       IN ParseFrom(tokens, i + 1,
                    IF ends THEN EmptyCommand ELSE c3,
                    IF ends THEN Append(allCommands, c3) ELSE allCommands,
                    IF ends THEN i + 1 ELSE lastCommandStart,
                    IF ends THEN FALSE ELSE (foundSpecial \/ IsSpecial(t)),
                    IsStdinRedirect(t), IsStdoutRedirect(t))

\* func ParseCommands(tokens []Token) []ParsedCommand
ParseCommands(tokens) == ParseFrom(tokens, 0, EmptyCommand, <<>>, 0, FALSE, FALSE, FALSE)

\* the values of the Stdin and Stdout fields of an exec.Cmd: nil (the child
\* gets the null device), a stream of the interpreter, an opened file, or an
\* end of the pipe that StdoutPipe made for the reader at position id of cmds
Nil == [kind |-> "nil", path |-> <<>>, id |-> 0]
OsStdin == [kind |-> "os.Stdin", path |-> <<>>, id |-> 0]
OsStdout == [kind |-> "os.Stdout", path |-> <<>>, id |-> 0]
File(path) == [kind |-> "file", path |-> path, id |-> 0]
Pipe(id) == [kind |-> "pipe", path |-> <<>>, id |-> id]

\* what the loop over commands hands on: cmds, or the run-time panic of an
\* index out of range
BuildRet(cs, pn) == [cmds |-> cs, panic |-> pn]

\* "If there was a Stdout specified, use it": the stdout of the command at
\* position n of cmds, built from stage i of the commands
HookupStdout(stages, i, cs, n, bad) ==
  LET c == stages[i + 1]
  IN IF c.Stdout # <<>>
     THEN IF c.Stdout \notin bad THEN [cs EXCEPT ![n].Stdout = File(c.Stdout)] ELSE cs
     ELSE IF i = Len(stages) - 1 THEN [cs EXCEPT ![n].Stdout = OsStdout] ELSE cs

\* "for i, c := range commands { ... }" from index i on; bad are the paths
\* that os.Open and os.Create fail on
RECURSIVE BuildFrom(_, _, _, _)
BuildFrom(stages, i, cs, bad) ==
  IF i >= Len(stages) THEN BuildRet(cs, FALSE)
  ELSE LET c == stages[i + 1]
       IN IF Len(c.Args) = 0 THEN BuildFrom(stages, i + 1, cs, bad)
          ELSE LET cs1 == Append(cs, [Args |-> c.Args, Stdin |-> Nil, Stdout |-> Nil])
                   n == Len(cs1)
               IN IF c.Stdin # <<>>
                  THEN BuildFrom(stages, i + 1,
                         HookupStdout(stages, i,
                           IF c.Stdin \notin bad
                           THEN [cs1 EXCEPT ![n].Stdin = File(c.Stdin)] ELSE cs1,
                           n, bad),
                         bad)
                  ELSE IF i > 0
                    THEN IF i - 1 >= Len(cs1) THEN BuildRet(cs1, TRUE)
                         \* cmds[i-1].StdoutPipe(): "Stdout already set"
                         ELSE IF cs1[i].Stdout # Nil THEN BuildFrom(stages, i + 1, cs1, bad)
                         ELSE BuildFrom(stages, i + 1,
                                HookupStdout(stages, i,
                                  [cs1 EXCEPT ![i].Stdout = Pipe(n), ![n].Stdin = Pipe(n)],
                                  n, bad),
                                bad)
                  ELSE BuildFrom(stages, i + 1,
                         HookupStdout(stages, i, [cs1 EXCEPT ![n].Stdin = OsStdin], n, bad),
                         bad)

\* the paths named by the redirections of the stages
PathsOf(stages) ==
  ({stages[k].Stdin : k \in 1..Len(stages)} \cup {stages[k].Stdout : k \in 1..Len(stages)})
    \ {<<>>}

\* the lines of at most MaxLen characters
AllLines == UNION {[1..n -> Chars] : n \in 0..MaxLen}

\* HandleCmd is called with a line; the interpreter has started no job yet
LineInit == InitJobs /\ stdinIsTty /\ line \in AllLines /\ parsed = <<>>
              /\ background = FALSE /\ parsedtokens = <<>> /\ commands = <<>>
              /\ cmds = <<>> /\ unopenable = {} /\ lpc = "line" /\ PrefixIdle

\* "parsed := c.Tokenize()"
TokenizeLine ==
  /\ lpc = "line"
  /\ LET r == Tokenize(line)
     IN /\ parsed' = r.parsed
        /\ lpc' = IF r.panic THEN "panic" ELSE "tokenized"
  /\ UNCHANGED <<line, background, parsedtokens, commands, cmds, unopenable>>
  /\ UNCHANGED <<jobVars, prefixVars>>

\* HandleCmd from "if len(parsed) == 0" to "commands := ParseCommands(...)" for
\* a first word that is none of the builtins: the arguments (the expansions
\* leave words of Chars as they are when no file name matches them), the
\* test for "&", "switch parsed[0]", parsedtokens
ParseLine ==
  /\ lpc = "tokenized"
  /\ IF Len(parsed) = 0
     THEN lpc' = "returned" /\ UNCHANGED <<parsed, background, parsedtokens, commands>>
     ELSE LET args == Tail(parsed)
              bg == parsed[Len(parsed)] = <<"&">>
              parsed1 == IF bg THEN SubSeq(parsed, 1, Len(parsed) - 1) ELSE parsed
          IN /\ parsed' = parsed1
             /\ background' = bg
             /\ IF Len(parsed1) = 0
                THEN lpc' = "panic" /\ UNCHANGED <<parsedtokens, commands>>
                ELSE /\ parsedtokens' = <<parsed1[1]>> \o args
                     /\ commands' = ParseCommands(parsedtokens')
                     /\ lpc' = "parsed"
  /\ UNCHANGED <<line, cmds, unopenable>>
  /\ UNCHANGED <<jobVars, prefixVars>>

\* HandleCmd, the loop over commands that makes cmds and connects the streams
BuildPipeline ==
  /\ lpc = "parsed"
  /\ \E bad \in SUBSET PathsOf(commands) :
       LET r == BuildFrom(commands, 0, <<>>, bad)
       IN /\ unopenable' = bad
          /\ cmds' = r.cmds
          /\ lpc' = IF r.panic THEN "panic" ELSE "built"
  /\ UNCHANGED <<line, parsed, background, parsedtokens, commands>>
  /\ UNCHANGED <<jobVars, prefixVars>>

LineNext == TokenizeLine \/ ParseLine \/ BuildPipeline

\* the handling of one line up to the start of the processes
LineSpec == LineInit /\ [][LineNext]_vars

(* ------------------- ParseCommands on its own ------------------------- *)
\* number of tokens handed to ParseCommands
MaxTokens == 4

\* the tokens: two words and the three special tokens
Toks == {<<"a">>, <<"b">>, <<"<">>, <<">">>, <<"|">>}

\* the token sequences of at most MaxTokens tokens
AllTokens == UNION {[1..n -> Toks] : n \in 0..MaxTokens}

\* ParseCommands is called with a token sequence, as its test does
ParseInit == InitJobs /\ stdinIsTty /\ line = <<>> /\ parsed = <<>>
               /\ background = FALSE /\ parsedtokens \in AllTokens /\ commands = <<>>
               /\ cmds = <<>> /\ unopenable = {} /\ lpc = "tokens" /\ PrefixIdle

\* "commands := ParseCommands(parsedtokens)"
ParseTokens ==
  /\ lpc = "tokens"
  /\ commands' = ParseCommands(parsedtokens)
  /\ lpc' = "parsed"
  /\ UNCHANGED <<line, parsed, background, parsedtokens, cmds, unopenable>>
  /\ UNCHANGED <<jobVars, prefixVars>>

ParseNext == ParseTokens \/ BuildPipeline

\* ParseCommands and the pipeline build on a token sequence
ParseSpec == ParseInit /\ [][ParseNext]_vars

(* ------------------------- LongestPrefix ------------------------------- *)
\* number of strings in the list and number of characters of a string
MaxStrs == 3
MaxStrLen == 2

\* the result of LongestPrefix: the string returned, or a run-time panic
PrefixRet(p, panic) == [prefix |-> p, panic |-> panic]

\* "for i := range prefix": the comparison of prefix with cmp from index i on.
\* "i > len(cmp)" lets i = len(cmp) through, and cmp[i] is then out of range;
\* cmp[:i] with i > len(cmp) would be out of range as well
RECURSIVE RangePrefix(_, _, _)
RangePrefix(p, cmp, i) ==
  IF i >= Len(p) THEN PrefixRet(p, FALSE)
  ELSE IF i > Len(cmp) THEN PrefixRet(p, TRUE)
  ELSE IF i = Len(cmp) THEN PrefixRet(p, TRUE)
  ELSE IF p[i + 1] # cmp[i + 1] THEN PrefixRet(Slice(cmp, 0, i), FALSE)
  ELSE RangePrefix(p, cmp, i + 1)

\* "for _, cmp := range strs[1:]" from the k-th element of ss on
RECURSIVE PrefixFrom(_, _, _)
PrefixFrom(p, ss, k) ==
  IF k > Len(ss) THEN PrefixRet(p, FALSE)
  ELSE LET r == RangePrefix(p, ss[k], 0)
       IN IF r.panic THEN r ELSE PrefixFrom(r.prefix, ss, k + 1)

\* func LongestPrefix(strs []string) string
LongestPrefix(ss) ==
  IF Len(ss) = 0 THEN PrefixRet(<<>>, FALSE) ELSE PrefixFrom(ss[1], ss, 2)

\* the strings of at most MaxStrLen characters and the lists of them
AllStrs == UNION {[1..n -> {"a", "b"}] : n \in 0..MaxStrLen}
AllStrLists == UNION {[1..n -> AllStrs] : n \in 0..MaxStrs}

\* LongestPrefix is called with a list of strings, as its test does
PrefixInit == InitJobs /\ stdinIsTty /\ LineIdle /\ lpc = "idle"
                /\ strs \in AllStrLists /\ prefix = <<>> /\ ppc = "call"

\* "got := LongestPrefix(tc.Val)"
CallLongestPrefix ==
  /\ ppc = "call"
  /\ LET r == LongestPrefix(strs)
     IN /\ prefix' = r.prefix
        /\ ppc' = IF r.panic THEN "panic" ELSE "done"
  /\ UNCHANGED strs
  /\ UNCHANGED <<jobVars, lineVars>>

PrefixNext == CallLongestPrefix

\* one call of LongestPrefix
PrefixSpec == PrefixInit /\ [][PrefixNext]_vars

(* ------------- the interpreter as the only sender of SIGCONT ----------- *)
\* the children stop, exit and are killed; nobody but bg and fg continues them
ChildEnds ==
  \E p \in Pids :
    \/ ChildStops(p)
    \/ \E code \in ExitCodes : ChildExits(p, code)
    \/ ChildKilled(p)

BgNext ==
  \/ Startup
  \/ ReadLine
  \/ Dispatch
  \/ Exit
  \/ WaitStep
  \/ DeliverSigchld
  \/ ChildEnds

\* main and Wait when every SIGCONT comes from the builtins bg and fg
BgSpec == Init /\ [][BgNext]_vars

(* ------------------ a reaping pass in which wait4 can fail ------------- *)
\* what the kernel holds of a child that has been started and not waited for
ChildStates(p) ==
  {[st |-> "running", pgid |-> p, rpt |-> r, code |-> 0] : r \in {"none", "continued"}}
    \cup {[st |-> "stopped", pgid |-> p, rpt |-> r, code |-> 0] : r \in {"none", "stopped"}}
    \cup {[st |-> "zombie", pgid |-> p, rpt |-> "exited", code |-> c] : c \in ExitCodes}
    \cup {[st |-> "zombie", pgid |-> p, rpt |-> "signaled", code |-> 0]}

\* Wait has received a SIGCHLD and starts a pass: the table holds n jobs of one
\* process each, one of them is the foreground job and owns the terminal
ReapInit ==
  /\ \E n \in 1..MaxPid :
       /\ processGroups = [i \in 1..n |-> i]
       /\ procs \in [Pids -> UNION {ChildStates(p) : p \in Pids} \cup {FreeProc}]
       /\ \A p \in Pids : IF p <= n THEN procs[p] \in ChildStates(p) ELSE procs[p] = FreeProc
       /\ nextPid = n + 1
       /\ ForegroundPid \in 1..n
  /\ ttyPgrp = ForegroundPid
  /\ termMode = "orig"
  /\ envStatus \in {<<>>, <<"1", "2", "7">>}
  /\ stdinIsTty = TRUE
  /\ sigchld = FALSE
  /\ pc = "pass"
  /\ cmd = [kind |-> "fg", args |-> <<Itoa(ForegroundPid - 1)>>]
  /\ err = "fg"
  /\ srcErrs = <<>>
  /\ passIdx = 1
  /\ waitErr = FALSE
  /\ newPg = <<>>
  /\ LineIdle /\ lpc = "idle" /\ PrefixIdle

\* one iteration of "for _, pg := range processGroups"; the call of wait4
\* returns a status or fails
ReapCheck ==
  /\ pc = "pass"
  /\ passIdx <= Len(processGroups)
  /\ \E fails \in BOOLEAN :
       WaitCheckWith(IF fails THEN Wait4Error(procs) ELSE Wait4(procs, processGroups[passIdx]))

ReapNext == ReapCheck \/ WaitEndPass

\* one reaping pass, with a wait4 that can fail
ReapSpec == ReapInit /\ [][ReapNext]_vars

(* ======================= properties ==================================== *)
Range(f) == {f[i] : i \in DOMAIN f}

\* the processes a step has started
Started == {p \in Pids : procs[p].st = "free" /\ procs'[p].st # "free"}

\* a step in which main has handed an external pipeline to HandleCmd
ExtStep == pc = "read" /\ pc' = "dispatch" /\ cmd'.kind = "ext"

\* C1: a pipeline of which at least one stage starts makes exactly one process
\* group and adds exactly one job, at the end of the table: the first started
\* stage leads the group (pgid = own pid) and is the job, every later started
\* stage has that pgid.
C1_OneGroupOneJob ==
  [][(ExtStep /\ Started # {}) =>
       /\ Len(processGroups') = Len(processGroups) + 1
       /\ SubSeq(processGroups', 1, Len(processGroups)) = processGroups
       /\ processGroups'[Len(processGroups')] = nextPid
       /\ nextPid \in Started
       /\ \A p \in Started : p >= nextPid /\ procs'[p].pgid = nextPid
       /\ Cardinality({procs'[p].pgid : p \in Started}) = 1]_vars

\* a pipeline of two started stages has just been handled
C1_Witness ==
  /\ pc = "dispatch" /\ cmd.kind = "ext" /\ cmd.n >= 2 /\ cmd.failAt = 0
  /\ \E p, q \in Pids :
       /\ p # q /\ procs[p].pgid = p /\ procs[q].pgid = p
       /\ processGroups[Len(processGroups)] = p

\* C2: ForegroundPid is 0 exactly when the interpreter owns the terminal, and a
\* non-zero ForegroundPid is the group that owns the terminal.
C2_ForegroundIffOwnsTerminal ==
  /\ (ForegroundPid = 0) <=> (ttyPgrp = ShellPid)
  /\ ForegroundPid # 0 => ttyPgrp = ForegroundPid

InWait == pc \in {"enterWait", "recv", "pass"}

\* C3: when HandleCmd has started a foreground pipeline and returned the
\* sentinel, the pipeline is the only job of the table, and its process has
\* stopped, exited or been killed since, Wait eventually returns to the read
\* loop.
C3_WaitReturns ==
  (/\ InWait
   /\ cmd.kind = "ext"
   /\ ForegroundPid # 0
   /\ processGroups = <<ForegroundPid>>
   /\ procs[ForegroundPid].rpt \in {"stopped", "exited", "signaled"})
    ~> (pc = "read")

\* C4: when a call of HandleCmd has returned the foreground sentinel, from the
\* typed line or from a line of a sourced file, the interpreter does not go
\* back to the prompt without Wait, and it enters Wait only then.
C4_WaitAfterEverySentinel ==
  [][/\ (pc = "start" /\ pc' = "read") => "fg" \notin Range(srcErrs')
     /\ (pc = "dispatch" /\ pc' = "read") => (err # "fg" /\ "fg" \notin Range(srcErrs))
     /\ (pc = "dispatch" /\ pc' = "enterWait") => err = "fg"]_vars

\* a step of the reaping pass that checks one job
CheckStep == pc = "pass" /\ passIdx <= Len(processGroups) /\ passIdx' = passIdx + 1
CurJob == processGroups[passIdx]
SeesStopped == procs[CurJob].st = "stopped" /\ procs[CurJob].rpt = "stopped"
SeesContinued == procs[CurJob].st = "running" /\ procs[CurJob].rpt = "continued"
SeesExited == procs[CurJob].st = "zombie" /\ procs[CurJob].rpt = "exited"
SeesSignaled == procs[CurJob].st = "zombie" /\ procs[CurJob].rpt = "signaled"
SeesNothing == procs[CurJob].st \in {"running", "stopped"} /\ procs[CurJob].rpt = "none"
EndPassStep == pc = "pass" /\ pc' \in {"read", "enterWait"}

\* the interpreter takes the terminal back
Reclaimed == ForegroundPid' = 0 /\ ttyPgrp' = ShellPid /\ termMode' = "cbreak"

\* C5: a pass that sees a stopped job keeps it; if it is the foreground job the
\* interpreter takes the terminal back and ForegroundPid becomes 0, otherwise
\* ForegroundPid and the terminal are left alone; a stopped job is in the table
\* after the pass.
C5_StoppedKept ==
  [][/\ (CheckStep /\ SeesStopped) =>
          /\ newPg' = Append(newPg, CurJob)
          /\ IF CurJob = ForegroundPid
             THEN Reclaimed
             ELSE UNCHANGED <<ForegroundPid, ttyPgrp, termMode>>
     /\ EndPassStep =>
          \A i \in 1..Len(processGroups) :
             procs[processGroups[i]].st = "stopped" =>
               processGroups[i] \in Range(processGroups')]_vars

\* the only job was the foreground job, the pass has seen it stopped
C5_Witness ==
  /\ pc = "pass" /\ passIdx = 2 /\ Len(processGroups) = 1
  /\ newPg = processGroups
  /\ procs[processGroups[1]].st = "stopped" /\ procs[processGroups[1]].rpt = "none"
  /\ ForegroundPid = 0 /\ ttyPgrp = ShellPid /\ termMode = "cbreak"

\* the decimal form of the exit codes
Decimal(code) == IF code = 0 THEN <<"0">> ELSE <<"1", "2", "7">>

\* C6: a pass that sees an exited job drops it from the table and sets "?" to
\* the decimal exit code, foreground or not; if it is the foreground job the
\* interpreter takes the terminal back and ForegroundPid becomes 0.
C6_ExitedRemoved ==
  [][/\ (CheckStep /\ SeesExited) =>
          /\ newPg' = newPg
          /\ envStatus' = Decimal(procs[CurJob].code)
          /\ IF CurJob = ForegroundPid
             THEN Reclaimed
             ELSE UNCHANGED <<ForegroundPid, ttyPgrp, termMode>>
     /\ EndPassStep =>
          \A i \in 1..Len(processGroups) :
             procs[processGroups[i]].st = "reaped" =>
               processGroups[i] \notin Range(processGroups')]_vars

\* the foreground job exited with 127 and the pass has been through it
C6_Witness ==
  /\ pc = "pass" /\ passIdx = 2
  /\ procs[processGroups[1]].st = "reaped" /\ procs[processGroups[1]].code = 127
  /\ newPg = <<>> /\ envStatus = <<"1", "2", "7">>
  /\ ForegroundPid = 0 /\ ttyPgrp = ShellPid

\* C7 as stated: a pass that sees a job killed by a signal drops it, takes the
\* terminal back if it is the foreground job, and sets "?" from its status
\* (ExitStatus() of a killed process is -1).
C7_SignaledSetsStatus ==
  [][(CheckStep /\ SeesSignaled) =>
          /\ newPg' = newPg
          /\ (CurJob = ForegroundPid => Reclaimed)
          /\ envStatus' = <<"-", "1">>]_vars

\* C7 amended: a pass that sees a job killed by a signal drops it and takes the
\* terminal back if it is the foreground job, and leaves "?" as it was.
C7_SignaledRemoved ==
  [][/\ (CheckStep /\ SeesSignaled) =>
          /\ newPg' = newPg
          /\ envStatus' = envStatus
          /\ IF CurJob = ForegroundPid
             THEN Reclaimed
             ELSE UNCHANGED <<ForegroundPid, ttyPgrp, termMode>>
     /\ EndPassStep =>
          \A i \in 1..Len(processGroups) :
             procs[processGroups[i]].st = "reaped" =>
               processGroups[i] \notin Range(processGroups')]_vars

\* the foreground job was killed, the pass has been through it, "?" is unset
C7_Witness ==
  /\ pc = "pass" /\ passIdx = 2
  /\ procs[processGroups[1]].st = "reaped"
  /\ newPg = <<>> /\ envStatus = <<>>
  /\ ForegroundPid = 0 /\ ttyPgrp = ShellPid

\* C8: a pass that sees a continued job keeps it; the job gets the foreground
\* (original terminal mode, terminal owned by it, ForegroundPid = its pgid) if
\* and only if ForegroundPid is 0 when it is checked.
C8_ContinuedPromoted ==
  [][(CheckStep /\ SeesContinued) =>
          /\ newPg' = Append(newPg, CurJob)
          /\ IF ForegroundPid = 0
             THEN ForegroundPid' = CurJob /\ ttyPgrp' = CurJob /\ termMode' = "orig"
             ELSE UNCHANGED <<ForegroundPid, ttyPgrp, termMode>>]_vars

\* fg 0 made the first of two jobs the foreground job; the pass saw it stopped
\* and then the second one continued, which now has the foreground
C8_Witness ==
  /\ pc = "pass" /\ passIdx = 3 /\ processGroups = <<1, 2>> /\ nextPid = 3
  /\ cmd = [kind |-> "fg", args |-> <<Itoa(0)>>]
  /\ procs[1].st = "stopped" /\ procs[1].rpt = "none"
  /\ procs[2].st = "running" /\ procs[2].rpt = "none"
  /\ newPg = <<1, 2>>
  /\ ForegroundPid = 2 /\ ttyPgrp = 2 /\ termMode = "orig"

NotReaped(j) == procs[j].st # "reaped"

\* C9: a pass checks the jobs of the table one after the other, each once; a
\* job without a status is kept and nothing else changes; newPg is at each
\* moment the checked jobs that did not exit or die, in table order, and
\* becomes the table when the pass ends.
C9_PassKeepsOrder ==
  /\ [](pc = "pass" =>
          /\ passIdx \in 1..(Len(processGroups) + 1)
          /\ newPg = SelectSeq(SubSeq(processGroups, 1, passIdx - 1), NotReaped))
  /\ [][/\ (pc = "recv" /\ pc' = "pass") => (passIdx' = 1 /\ newPg' = <<>>)
        /\ (pc = "pass" /\ pc' = "pass" /\ <<passIdx, newPg>>' # <<passIdx, newPg>>) => CheckStep
        /\ (CheckStep /\ SeesNothing) =>
             /\ newPg' = Append(newPg, CurJob)
             /\ UNCHANGED <<processGroups, ForegroundPid, ttyPgrp, termMode,
                            envStatus, procs>>
        /\ EndPassStep =>
             /\ passIdx = Len(processGroups) + 1
             /\ processGroups' = SelectSeq(processGroups, NotReaped)]_vars

\* a pass is over its two jobs: the first one exited, the second one had no
\* status and is kept
C9_Witness ==
  /\ pc = "pass" /\ Len(processGroups) = 2 /\ passIdx = 3
  /\ procs[processGroups[1]].st = "reaped"
  /\ procs[processGroups[2]].st = "running"
  /\ newPg = <<processGroups[2]>>

\* the lines "bg" and "fg" with no argument, a word, a negative index, or an
\* index that is not below the length of the table
BadJobArgs(args) ==
  \/ args = <<>>
  \/ args[1] \in {<<"x">>, <<"-", "1">>}
  \/ \E i \in 0..MaxPid : i >= Len(processGroups) /\ args[1] = Itoa(i)

\* C10: bg and fg with a missing, non-numeric or out-of-range argument return
\* an error and leave the processes, the pending signal, the terminal owner and
\* mode, ForegroundPid and the job table as they were.
C10_BadJobArgRejected ==
  [][(pc = "read" /\ pc' # "read" /\ cmd'.kind \in {"bg", "fg"} /\ BadJobArgs(cmd'.args)) =>
       /\ pc' = "dispatch" /\ err' = "err"
       /\ UNCHANGED <<processGroups, ForegroundPid, ttyPgrp, termMode, procs,
                      sigchld, envStatus>>]_vars

\* fg with a word as argument has been rejected while the first job is stopped
C10_Witness ==
  /\ pc = "dispatch" /\ cmd.kind = "fg" /\ cmd.args = <<(<<"x">>)>> /\ err = "err"
  /\ Len(processGroups) >= 1 /\ procs[processGroups[1]].st = "stopped"
  /\ ForegroundPid = 0 /\ ttyPgrp = ShellPid /\ termMode = "cbreak"

\* the lines "bg i" and "fg i" with i an index of the job table
GoodJobArgs(args) ==
  \E i \in 0..(MaxPid - 1) : i < Len(processGroups) /\ args = <<Itoa(i)>>

\* the job such a line names
NamedJob(args) == processGroups[Atoi(args[1]).val + 1]

\* main has handed the typed line "k i", i a valid index, to HandleCmd
JobStep(k) == pc = "read" /\ pc' # "read" /\ cmd'.kind = k /\ GoodJobArgs(cmd'.args)

\* what SIGCONT does to job j: a stopped job runs again and a SIGCHLD is
\* raised, a job that is not stopped is left as it is
Continues(j) ==
  IF procs[j].st = "stopped"
  THEN /\ procs' = [procs EXCEPT ![j].st = "running", ![j].rpt = "continued"]
       /\ sigchld'
  ELSE UNCHANGED <<procs, sigchld>>

\* C11: fg with a valid index sends the job SIGCONT, then leaves cbreak mode
\* and hands the terminal to the job, and only after the transfer sets
\* ForegroundPid to the job and returns the sentinel, on which the read loop
\* enters Wait; the job table is unchanged. (The signal and the mode change
\* have happened, and ForegroundPid is untouched, when the transfer fails.)
C11_FgSequence ==
  [][/\ JobStep("fg") =>
          /\ Continues(NamedJob(cmd'.args))
          /\ termMode' = "orig"
          /\ processGroups' = processGroups
          /\ IF stdinIsTty
             THEN /\ ttyPgrp' = NamedJob(cmd'.args)
                  /\ ForegroundPid' = NamedJob(cmd'.args)
                  /\ err' = "fg" /\ pc' = "dispatch"
             ELSE UNCHANGED <<ttyPgrp, ForegroundPid>>
     /\ (pc = "dispatch" /\ cmd.kind = "fg" /\ err = "fg" /\ pc' # pc) =>
          (pc' = "enterWait" /\ UNCHANGED <<processGroups, ForegroundPid, ttyPgrp>>)]_vars

\* fg 1 has continued the stopped second job and made it the foreground job,
\* and the read loop is in Wait
C11_Witness ==
  /\ pc = "enterWait" /\ cmd = [kind |-> "fg", args |-> <<Itoa(1)>>]
  /\ processGroups = <<1, 2>>
  /\ procs[2].st = "running" /\ procs[2].rpt = "continued"
  /\ ForegroundPid = 2 /\ ttyPgrp = 2 /\ termMode = "orig"

\* C12: bg with a valid index sends the job SIGCONT and returns nil, and the
\* read loop goes back to the prompt without Wait; ForegroundPid, the
\* foreground group of the terminal, the terminal mode and the job table are
\* the same after the call as before it.
C12_BgLeavesTerminal ==
  [][/\ JobStep("bg") =>
          /\ Continues(NamedJob(cmd'.args))
          /\ err' = "nil" /\ pc' = "dispatch"
          /\ UNCHANGED <<ForegroundPid, ttyPgrp, termMode, processGroups, envStatus>>
     /\ (pc = "dispatch" /\ cmd.kind = "bg" /\ pc' # pc) => pc' = "read"]_vars

\* bg 0 has continued the stopped first job; the interpreter keeps the terminal
C12_Witness ==
  /\ pc = "dispatch" /\ cmd = [kind |-> "bg", args |-> <<Itoa(0)>>] /\ err = "nil"
  /\ Len(processGroups) >= 1
  /\ procs[processGroups[1]].st = "running" /\ procs[processGroups[1]].rpt = "continued"
  /\ ForegroundPid = 0 /\ ttyPgrp = ShellPid /\ termMode = "cbreak"

\* C13: whenever the interpreter reads a line at the prompt the terminal is in
\* cbreak mode, and whenever a job owns the terminal it is in the original
\* mode.
C13_ModeFollowsOwner ==
  /\ pc = "read" => termMode = "cbreak"
  /\ ttyPgrp # ShellPid => termMode = "orig"

\* C14: HandleCmd returns nil for every pipeline line that ends in "&",
\* whatever becomes of its stages, and the read loop goes back to the prompt
\* without Wait.
C14_BackgroundReturnsNil ==
  [][/\ (ExtStep /\ cmd'.bg) => err' = "nil"
     /\ (pc = "dispatch" /\ cmd.kind = "ext" /\ cmd.bg /\ pc' # pc) => pc' = "read"]_vars

\* C15: when a stage of a pipeline fails to start, the failure is reported and
\* every other stage is started: the stages after the failing one too.
C15_StartsRemainingStages ==
  [][(ExtStep /\ cmd'.failAt # 0) =>
       (err' = "err" /\ Cardinality(Started) = cmd'.n - 1)]_vars

\* C16: a TIOCSPGRP ioctl that fails is handed back as an error value: the
\* foreground start of HandleCmd and fg return an error that is not the
\* sentinel, and neither they nor a step of the pass of Wait panic.
C16_TransferFailureReturned ==
  [][/\ (ExtStep /\ ~cmd'.bg /\ cmd'.failAt = 0 /\ ~stdinIsTty) =>
          (pc' = "dispatch" /\ err' = "err")
     /\ (JobStep("fg") /\ ~stdinIsTty) => (pc' = "dispatch" /\ err' = "err")
     /\ CheckStep => pc' # "panic"]_vars

\* C17: no line makes Tokenize or HandleCmd panic: the handling of every line
\* gets to the start of the processes or returns.
C17_NoLinePanics == lpc # "panic"

\* a token that is a run of letters
IsWord(t) == t # <<>> /\ \A j \in 1..Len(t) : t[j] \in {"a", "b"}

\* the line is a pipeline whose stages all have non-empty Args, the name of a
\* command first, and cmds has been made from it: stage k of the commands is
\* cmds[k]
BuiltAllArgs ==
  /\ lpc = "built"
  /\ \A k \in 1..Len(commands) : commands[k].Args # <<>> /\ IsWord(commands[k].Args[1])

\* the files the line names have letters as names
WordPaths == \A f \in PathsOf(commands) : IsWord(f)

\* C18: in a pipeline whose stages all have non-empty Args the input of a stage
\* is the file of its Stdin path when that is set and can be opened, else for
\* a stage after the first the read end of a pipe whose write end is the
\* standard output of the stage before it, else the interpreter's standard
\* input.
C18_StdinWiring ==
  (BuiltAllArgs /\ WordPaths) =>
    \A k \in 1..Len(commands) :
       /\ k <= Len(cmds)
       /\ IF commands[k].Stdin # <<>> /\ commands[k].Stdin \notin unopenable
          THEN cmds[k].Stdin = File(commands[k].Stdin)
          ELSE IF k > 1
            THEN cmds[k].Stdin.kind = "pipe" /\ cmds[k - 1].Stdout = cmds[k].Stdin
            ELSE cmds[k].Stdin = OsStdin

\* C19: when every file can be created, a stage with a Stdout path writes to
\* that file, a stage that is not the last, has no Stdout path and is followed
\* by a stage without a Stdin path writes into the pipe the next stage reads,
\* and the last stage without a Stdout path writes to the interpreter's
\* standard output, whatever the other stages redirect.
C19_StdoutWiring ==
  (BuiltAllArgs /\ unopenable = {}) =>
    \A k \in 1..Len(commands) :
       /\ k <= Len(cmds)
       /\ IF commands[k].Stdout # <<>>
          THEN cmds[k].Stdout = File(commands[k].Stdout)
          ELSE IF k = Len(commands)
            THEN cmds[k].Stdout = OsStdout
            ELSE commands[k + 1].Stdin = <<>> =>
                   (cmds[k].Stdout.kind = "pipe" /\ cmds[k + 1].Stdin = cmds[k].Stdout)

\* C20: a stage whose redirection file cannot be opened or created is still
\* made, and so is every other stage, and the stream of that direction is
\* not left unset: it is a stream of the interpreter or a pipe.
C20_OpenFailureKeepsDefault ==
  (BuiltAllArgs /\ WordPaths) =>
    /\ Len(cmds) = Len(commands)
    /\ \A k \in 1..Len(commands) :
         /\ commands[k].Stdin \in unopenable => cmds[k].Stdin.kind \in {"os.Stdin", "pipe"}
         /\ commands[k].Stdout \in unopenable => cmds[k].Stdout.kind \in {"os.Stdout", "pipe"}

\* C21: for a line whose last token is "&" the pipeline is run in the
\* background and its stages are the stages of the tokens without that "&":
\* the "&" is in no argv.
C21_AmpersandNotInArgv ==
  (lpc = "parsed" /\ background /\ IsWord(parsed[1])) =>
    commands = ParseCommands(parsed)

\* ParseCommands has returned
Parsed == lpc = "parsed"

\* the number of "|" among the first n tokens
PipesBefore(ts, n) == Cardinality({j \in 1..n : IsPipe(ts[j])})

\* the position of the k-th "|" of ts; 0 for k = 0 and Len(ts) + 1 when ts
\* has fewer than k of them
NthPipe(ts, k) ==
  IF k = 0 THEN 0
  ELSE IF PipesBefore(ts, Len(ts)) < k THEN Len(ts) + 1
  ELSE CHOOSE j \in 1..Len(ts) : IsPipe(ts[j]) /\ PipesBefore(ts, j) = k

\* the k-th segment of ts: the tokens between the (k-1)-th and the k-th "|"
Segment(ts, k) == SubSeq(ts, NthPipe(ts, k - 1) + 1, NthPipe(ts, k) - 1)

\* the tokens a stage holds
TokensOf(c) == Range(c.Args) \cup ({c.Stdin, c.Stdout} \ {<<>>})

\* C22: ParseCommands returns no stage for the empty sequence and otherwise
\* one stage per segment, in order: as many stages as "|" tokens plus one,
\* also when the last token is "|", each made of tokens of its own segment.
C22_OneStagePerSegment ==
  Parsed =>
    IF parsedtokens = <<>> THEN commands = <<>>
    ELSE /\ Len(commands) = PipesBefore(parsedtokens, Len(parsedtokens)) + 1
         /\ \A k \in 1..Len(commands) :
              TokensOf(commands[k]) \subseteq Range(Segment(parsedtokens, k))

IsRedirect(t) == IsStdinRedirect(t) \/ IsStdoutRedirect(t)

\* the token after the last operator op of the k-th segment of ts that has a
\* token after it (<<>> when there is none)
PathAfter(ts, k, op) ==
  LET at == {j \in (NthPipe(ts, k - 1) + 1)..(NthPipe(ts, k) - 1) :
               ts[j] = op /\ j < Len(ts)}
  IN IF at = {} THEN <<>>
     ELSE ts[(CHOOSE j \in at : \A h \in at : h <= j) + 1]

\* the tokens of seg that are neither a redirection operator nor the token
\* right after one
RECURSIVE PlainWords(_, _)
PlainWords(seg, j) ==
  IF j > Len(seg) THEN <<>>
  ELSE IF IsRedirect(seg[j]) \/ (j > 1 /\ IsRedirect(seg[j - 1]))
    THEN PlainWords(seg, j + 1)
  ELSE <<seg[j]>> \o PlainWords(seg, j + 1)

\* a is b with some elements left out
RECURSIVE IsSubSeq(_, _)
IsSubSeq(a, b) ==
  IF a = <<>> THEN TRUE
  ELSE IF b = <<>> THEN FALSE
  ELSE IF Head(a) = Head(b) THEN IsSubSeq(Tail(a), Tail(b))
  ELSE IsSubSeq(a, Tail(b))

\* C23: in a token sequence that does not end in "|", the token after "<"
\* is the Stdin path of the stage and the token after ">" its Stdout path,
\* and the Args of the stage hold no redirection operator and no token that
\* stands right after one.
C23_RedirectionPaths ==
  (Parsed /\ parsedtokens # <<>> /\ ~IsPipe(parsedtokens[Len(parsedtokens)])) =>
    \A k \in 1..Len(commands) :
       LET seg == Segment(parsedtokens, k)
       IN /\ commands[k].Stdin = PathAfter(parsedtokens, k, <<"<">>)
          /\ commands[k].Stdout = PathAfter(parsedtokens, k, <<">">>)
          /\ \A t \in Range(commands[k].Args) : ~IsRedirect(t)
          /\ IsSubSeq(commands[k].Args, PlainWords(seg, 1))

\* C24: for words cmd, arg, out and a redirection operator op, the sequences
\* [cmd, op, out, arg] and [cmd, arg, op, out] give the same single stage,
\* with Args = [cmd, arg].
C24_RedirectionAnywhere ==
  (/\ Parsed /\ Len(parsedtokens) = 4
   /\ IsWord(parsedtokens[1]) /\ IsRedirect(parsedtokens[2])
   /\ IsWord(parsedtokens[3]) /\ IsWord(parsedtokens[4])) =>
    /\ commands = ParseCommands(<<parsedtokens[1], parsedtokens[4],
                                  parsedtokens[2], parsedtokens[3]>>)
    /\ Len(commands) = 1
    /\ commands[1].Args = <<parsedtokens[1], parsedtokens[4]>>

\* C25: no stage has a redirection operator in its Args; a stage of an empty
\* segment has empty Args, and so has the last stage when the sequence ends
\* in a redirection operator.
C25_MalformedGivesEmptyArgs ==
  Parsed =>
    /\ \A k \in 1..Len(commands) :
         /\ \A t \in Range(commands[k].Args) : ~IsRedirect(t)
         /\ Segment(parsedtokens, k) = <<>> => commands[k].Args = <<>>
    /\ (parsedtokens # <<>> /\ IsRedirect(parsedtokens[Len(parsedtokens)])) =>
         commands[Len(commands)].Args = <<>>

\* Tokenize has returned
Tokenized == lpc = "tokenized"

Structural == {"|", "<", ">", "&"}

\* the length of the longest prefix of s without a character of stop
RECURSIVE RunLen(_, _)
RunLen(s, stop) ==
  IF s = <<>> \/ Head(s) \in stop THEN 0 ELSE 1 + RunLen(Tail(s), stop)

\* s cut at its blanks and at its structural characters: the maximal runs of
\* other characters, and each structural character on its own
RECURSIVE Split(_)
Split(s) ==
  IF s = <<>> THEN <<>>
  ELSE IF Head(s) = " " THEN Split(Tail(s))
  ELSE IF Head(s) \in Structural THEN <<(<<Head(s)>>)>> \o Split(Tail(s))
  ELSE LET n == RunLen(s, Structural \cup {" "})
       IN <<SubSeq(s, 1, n)>> \o Split(SubSeq(s, n + 1, Len(s)))

\* C26: for a line without quote and without structural character Tokenize
\* returns the maximal runs of characters that are not blanks, in order
\* (nothing for a blank line), and does not fail.
C26_WhitespaceSplits ==
  (lpc # "line" /\ \A j \in 1..Len(line) : line[j] \notin Structural \cup {"'"}) =>
    (lpc # "panic" /\ parsed = Split(line))

\* leading and repeated blanks between two words
C26_Witness ==
  /\ Tokenized /\ line = <<" ", "a", " ", " ", "b">>
  /\ parsed = <<(<<"a">>), (<<"b">>)>>

\* the position of the quote that closes the literal opened at position p of
\* s: the first quote behind p that no backslash precedes (0: there is none)
ClosingQuote(s, p) ==
  LET qs == {q \in (p + 1)..Len(s) : s[q] = "'" /\ s[q - 1] # "\\"}
  IN IF qs = {} THEN 0 ELSE CHOOSE q \in qs : \A h \in qs : q <= h

\* t without the backslash of every \'
RECURSIVE Unescaped(_)
Unescaped(t) ==
  IF t = <<>> THEN <<>>
  ELSE IF Head(t) = "\\" /\ Len(t) >= 2 /\ t[2] = "'" THEN Unescaped(Tail(t))
  ELSE <<Head(t)>> \o Unescaped(Tail(t))

\* the number of blanks s starts with
LeadingBlanks(s) == RunLen(s, Chars \ {" "})

C28_StructuralSplits ==
  (Tokenized /\ \A j \in 1..Len(line) : line[j] # "'") => parsed = Split(line)

\* is a literal open after s
RECURSIVE OpenAfter(_, _, _)
OpenAfter(s, j, open) ==
  IF j > Len(s) THEN open
  ELSE IF s[j] = "'" /\ ~(open /\ j > 1 /\ s[j - 1] = "\\") THEN OpenAfter(s, j + 1, ~open)
  ELSE OpenAfter(s, j + 1, open)

\* C29: for a line that ends inside a literal Tokenize does not fail and
\* returns what it returns for the line with a closing quote appended.
C29_OpenLiteralClosed ==
  (lpc \in {"tokenized", "panic"} /\ OpenAfter(line, 1, FALSE)) =>
    /\ lpc = "tokenized"
    /\ parsed = Tokenize(line \o <<"'">>).parsed

\* the tokens that are words: not one of the four one-character tokens
IsWordToken(t) == ~(Len(t) = 1 /\ t[1] \in Structural)
WordsOf(ts) == SelectSeq(ts, IsWordToken)

\* the tokens joined with single blanks
RECURSIVE Join(_)
Join(ts) ==
  IF ts = <<>> THEN <<>>
  ELSE IF Len(ts) = 1 THEN ts[1]
  ELSE ts[1] \o <<" ">> \o Join(Tail(ts))

\* the words of parsed come back when they are joined and tokenized again
Retokenizes ==
  LET r == Tokenize(Join(WordsOf(parsed)))
  IN ~r.panic /\ WordsOf(r.parsed) = WordsOf(parsed)

\* C30 as stated: for every line, the word tokens joined with single blanks
\* and tokenized again give the same words.
C30_RetokenizeEveryLine == Tokenized => Retokenizes

\* C30 amended: for every line without a quote, the word tokens joined with
\* single blanks and tokenized again give the same words.
C30_RetokenizeUnquoted ==
  (Tokenized /\ \A j \in 1..Len(line) : line[j] # "'") => Retokenizes

\* a line of three words, a pipe and a blank between them
C30_Witness ==
  /\ Tokenized /\ line = <<"a", "|", "b", " ", "a">>
  /\ WordsOf(parsed) = <<(<<"a">>), (<<"b">>), (<<"a">>)>>

(* ---------------------------- LongestPrefix ---------------------------- *)
\* p is a prefix of s
IsPrefixOf(p, s) == Len(p) <= Len(s) /\ SubSeq(s, 1, Len(p)) = p

\* p is a prefix of every element of ss
CommonPrefix(p, ss) == \A k \in 1..Len(ss) : IsPrefixOf(p, ss[k])

\* p is the longest string that is a prefix of every element of the non-empty ss
LongestCommon(p, ss) ==
  /\ CommonPrefix(p, ss)
  /\ \A n \in 0..Len(ss[1]) : CommonPrefix(SubSeq(ss[1], 1, n), ss) => n <= Len(p)

\* C31: for every list of strings LongestPrefix returns, without a run-time
\* panic, the longest string that is a prefix of every element: the empty
\* string for the empty list, the element for a list of one element, also when
\* a later element is shorter than or a proper prefix of an earlier one
C31_LongestPrefix ==
  ppc # "call" =>
    /\ ppc = "done"
    /\ IF Len(strs) = 0 THEN prefix = <<>> ELSE LongestCommon(prefix, strs)

(* ------------------------ stages without Args -------------------------- *)
\* the stages that are not skipped: those with non-empty Args
NonEmptyArgs(c) == c.Args # <<>>
Remaining(stages) == SelectSeq(stages, NonEmptyArgs)

\* the loop over commands has run, or has panicked, for a pipeline that has a
\* stage with empty Args; the arguments are words, every file can be opened
\* and no stage in front of another one has a Stdout path
BuiltWithEmptyStage ==
  /\ lpc \in {"built", "panic"}
  /\ commands # <<>>
  /\ \E k \in 1..Len(commands) : commands[k].Args = <<>>
  /\ \A k \in 1..Len(commands) : \A j \in 1..Len(commands[k].Args) : IsWord(commands[k].Args[j])
  /\ unopenable = {}
  /\ \A n \in 1..(Len(Remaining(commands)) - 1) : Remaining(commands)[n].Stdout = <<>>

\* C32: a stage with empty Args is skipped without a panic, and the remaining
\* stages are all made, in order; a remaining stage after the first that has
\* no Stdin path reads the pipe that the remaining stage before it writes,
\* and the first remaining stage reads no pipe (it could only be its own)
C32_EmptyStagesSkipped ==
  BuiltWithEmptyStage =>
    /\ lpc = "built"
    /\ Len(cmds) = Len(Remaining(commands))
    /\ \A n \in 1..Len(cmds) :
         /\ cmds[n].Args = Remaining(commands)[n].Args
         /\ (n = 1) => cmds[n].Stdin.kind # "pipe"
         /\ (n > 1 /\ Remaining(commands)[n].Stdin = <<>>) =>
              (cmds[n].Stdin.kind = "pipe" /\ cmds[n - 1].Stdout = cmds[n].Stdin)

(* ----------------------- jobs and their processes ---------------------- *)
\* p is a job of the table
IsJob(p) == p \in Range(processGroups)

\* C33: a job of the table whose process has exited or been killed is
\* eventually taken out of the table (unless the interpreter itself ends),
\* also when the interpreter is at the prompt and no foreground job is
\* started afterwards: the notification of a child that changes status while
\* the interpreter is not in Wait is not lost
C33_DeadJobRemoved ==
  \A p \in Pids :
    (IsJob(p) /\ procs[p].st = "zombie") ~> (~IsJob(p) \/ pc \in {"exited", "panic"})

\* the processes of the process group g, and the last stage of its pipeline
\* (the stages are started in order, so it is the one with the highest pid)
Group(g) == {p \in Pids : procs[p].st # "free" /\ procs[p].pgid = g}
LastStage(g) == CHOOSE p \in Group(g) : \A q \in Group(g) : q <= p

\* C34: when the foreground job is a pipeline of two or more stages, a
\* reaping pass sets ForegroundPid back to 0 and takes the terminal only when
\* the last stage of the pipeline has terminated or stopped: the exit of the
\* first stage alone does not end the foreground wait
C34_WaitsForLastStage ==
  [][(/\ CheckStep
      /\ ForegroundPid # 0
      /\ ForegroundPid' = 0
      /\ Cardinality(Group(ForegroundPid)) >= 2) =>
        procs'[LastStage(ForegroundPid)].st \in {"zombie", "reaped", "stopped"}]_vars

\* C35: bg and fg with a valid index continue the whole process group of the
\* job: every process of the pipeline that was stopped before the call runs
\* after it, not only the leader of the group
C35_GroupContinued ==
  [][(JobStep("bg") \/ JobStep("fg")) =>
       \A p \in Group(procs[NamedJob(cmd'.args)].pgid) :
          procs[p].st = "stopped" => procs'[p].st = "running"]_vars

\* C36: when the call of wait4 for a job fails, the pass keeps the job in the
\* table and leaves the variable "?" as it is
C36_WaitErrorKeepsJob ==
  [][(CheckStep /\ waitErr') =>
       /\ newPg' = Append(newPg, CurJob)
       /\ envStatus' = envStatus]_vars

\* a step of the reaping pass that makes the job it checks the foreground job
Promotes == CheckStep /\ ForegroundPid # CurJob /\ ForegroundPid' = CurJob

\* C37: a job resumed with bg stays in the background: when jobs are continued
\* by bg and fg only (fg makes its job the foreground job itself, before Wait),
\* no reaping pass hands the terminal to a job or sets ForegroundPid to it
C37_BgStaysBackground ==
  [][~Promotes /\ (CheckStep => (ttyPgrp' = ttyPgrp \/ ttyPgrp' = ShellPid))]_vars

\* C38: ForegroundPid is 0 or a job of the table: nothing leaves it at a job
\* that was removed or never registered
C38_ForegroundIsJob == ForegroundPid = 0 \/ IsJob(ForegroundPid)

\* a pass has removed the exited job 1 while job 2 is the foreground job, and
\* Wait goes on waiting for job 2
C38_Witness ==
  /\ pc = "recv"
  /\ ForegroundPid = 2 /\ processGroups = <<2>>
  /\ procs[1].st = "reaped" /\ procs[2].st = "running"

(* ------------------------ the content of a line ------------------------ *)
\* the characters of the line c from the 1-based index i on that are content:
\* not a blank outside a literal, not a quote that opens or closes a literal,
\* not the backslash of a \' in a literal
RECURSIVE ContentFrom(_, _, _)
ContentFrom(c, i, inLiteral) ==
  IF i > Len(c) THEN <<>>
  ELSE IF c[i] = "'"
    THEN IF inLiteral /\ i > 1 /\ c[i - 1] = "\\"
         THEN <<"'">> \o ContentFrom(c, i + 1, TRUE)
         ELSE ContentFrom(c, i + 1, ~inLiteral)
  ELSE IF inLiteral
    THEN (IF c[i] = "\\" /\ i < Len(c) /\ c[i + 1] = "'" THEN <<>> ELSE <<c[i]>>)
           \o ContentFrom(c, i + 1, TRUE)
  ELSE (IF IsSpace(c[i]) THEN <<>> ELSE <<c[i]>>) \o ContentFrom(c, i + 1, FALSE)

\* the tokens written one after the other
RECURSIVE Concat(_)
Concat(ts) == IF ts = <<>> THEN <<>> ELSE Head(ts) \o Concat(Tail(ts))

\* C39: Tokenize loses no content of the line: the tokens, one after the
\* other, are the content characters of the line in input order, also when a
\* word comes right before an opening quote and when a literal is left open
C39_NoContentLost == lpc = "tokenized" => Concat(parsed) = ContentFrom(line, 1, FALSE)

====
